---- MODULE Spec2Model ----
(***************************************************************************)
(* Order extraction, order state and conversation policy of the            *)
(* Churrascaria Quitanda voice assistant (src/cursorquit/agent.py, with    *)
(* its sibling variants src/agent_clean.py and src/main.py).               *)
(*                                                                         *)
(* Messages are TLA+ strings and every pattern of the Python code is       *)
(* matched character by character, with the greedy/backtracking choices    *)
(* Python's re module makes.                                               *)
(***************************************************************************)
EXTENDS Integers, Sequences, FiniteSets, TLC

(***************************************************************************)
(* Strings                                                                 *)
(***************************************************************************)

\* Python's None for customer_name and pickup_time, and "no match" of a pattern.
\* Extracted values are taken from lower-cased text, so they never equal it.
None == "<None>"

Char(s, i) == SubSeq(s, i, i)

\* s[i-1:].startswith(k), positions counted from 1
HasAt(s, i, k) ==
    /\ i >= 1
    /\ i + Len(k) - 1 <= Len(s)
    /\ SubSeq(s, i, i + Len(k) - 1) = k

\* Python's `k in s` for strings
Contains(s, k) == \E i \in 1..(Len(s) - Len(k) + 1) : SubSeq(s, i, i + Len(k) - 1) = k

Min(S) == CHOOSE x \in S : \A y \in S : x <= y
Max(S) == CHOOSE x \in S : \A y \in S : x >= y

LowerAlphabet == "abcdefghijklmnopqrstuvwxyzàáâãäåæçèéêëìíîïðñòóôõöøùúûüýþ"
UpperAlphabet == "ABCDEFGHIJKLMNOPQRSTUVWXYZÀÁÂÃÄÅÆÇÈÉÊËÌÍÎÏÐÑÒÓÔÕÖØÙÚÛÜÝÞ"

\* the character class [A-Za-zÀ-ÖØ-öø-ÿ]
Letters ==
    {Char(LowerAlphabet, i) : i \in 1..Len(LowerAlphabet)}
        \cup {Char(UpperAlphabet, i) : i \in 1..Len(UpperAlphabet)}
        \cup {"ß", "ÿ"}

\* \d
Digits == {"0", "1", "2", "3", "4", "5", "6", "7", "8", "9"}

\* \s
Whitespace == {" ", "\n", "\t"}

\* [A-Za-zÀ-ÖØ-öø-ÿ\s]
LettersOrSpace == Letters \cup Whitespace

\* [h:. ]
TimeSeparators == {"h", ":", ".", " "}

InClass(s, i, C) == i >= 1 /\ i <= Len(s) /\ Char(s, i) \in C

\* the position after the longest run of characters of class C that starts at i
RunEnd(s, i, C) == Min({j \in i..(Len(s) + 1) : ~ InClass(s, j, C)})

\* str.lower()
LowerChar(c) ==
    IF \E i \in 1..Len(UpperAlphabet) : Char(UpperAlphabet, i) = c
    THEN Char(LowerAlphabet, CHOOSE i \in 1..Len(UpperAlphabet) : Char(UpperAlphabet, i) = c)
    ELSE c

RECURSIVE Lower(_)
Lower(s) ==
    IF Len(s) = 0 THEN ""
    ELSE IF Len(s) = 1 THEN LowerChar(s)
    ELSE Lower(SubSeq(s, 1, Len(s) \div 2)) \o Lower(SubSeq(s, (Len(s) \div 2) + 1, Len(s)))

\* str.strip()
Strip(s) ==
    LET keep == {i \in 1..Len(s) : Char(s, i) \notin Whitespace}
    IN  IF keep = {} THEN "" ELSE SubSeq(s, Min(keep), Max(keep))

\* len(s.split())
WordCount(s) ==
    Cardinality({i \in 1..Len(s) :
        /\ Char(s, i) \notin Whitespace
        /\ (i = 1 \/ Char(s, i - 1) \in Whitespace)})

DigitValue(c) == CHOOSE d \in 0..9 : Char("0123456789", d + 1) = c

\* int(s) for a string of digits
RECURSIVE StrToInt(_)
StrToInt(s) ==
    IF s = "" THEN 0
    ELSE 10 * StrToInt(SubSeq(s, 1, Len(s) - 1)) + DigitValue(Char(s, Len(s)))

\* str(n) for n >= 0
RECURSIVE IntToStr(_)
IntToStr(n) ==
    IF n < 10 THEN Char("0123456789", n + 1)
    ELSE IntToStr(n \div 10) \o Char("0123456789", (n % 10) + 1)

\* f"{n:02d}"
Pad2(n) == IF n < 10 THEN "0" \o IntToStr(n) ELSE IntToStr(n)

(***************************************************************************)
(* Customer name                                                           *)
(***************************************************************************)

common_words == <<"obrigado", "bom", "boa", "dia", "tarde", "noite", "gostaria", "desejo", "quero">>

\* re.search(r"<literal>([A-Za-zÀ-ÖØ-öø-ÿ\s]+)", s).group(1) for the literals
\* of one alternation: the leftmost literal followed by a character of the class
LiteralThenRun(s, literals) ==
    LET starts == {i \in 1..Len(s) : \E l \in literals :
                        HasAt(s, i, l) /\ InClass(s, i + Len(l), LettersOrSpace)}
    IN  IF starts = {} THEN None
        ELSE LET i == Min(starts)
                 l == CHOOSE l \in literals : HasAt(s, i, l) /\ InClass(s, i + Len(l), LettersOrSpace)
                 b == i + Len(l)
             IN  Strip(SubSeq(s, b, RunEnd(s, b, LettersOrSpace) - 1))

\* re.search(r"(^|\s)([A-Za-zÀ-ÖØ-öø-ÿ]{2,})\s+([A-Za-zÀ-ÖØ-öø-ÿ]{2,})($|\s)", s):
\* f"{group(2)} {group(3)}" of the leftmost match
TwoWords(s) ==
    LET WordOk(q) ==
            LET e1 == RunEnd(s, q, Letters)
                w  == RunEnd(s, e1, Whitespace)
                e2 == RunEnd(s, w, Letters)
            IN  /\ e1 - q >= 2
                /\ w > e1
                /\ e2 - w >= 2
                /\ (e2 = Len(s) + 1 \/ InClass(s, e2, Whitespace))
        starts == {q \in 1..Len(s) : (q = 1 \/ InClass(s, q - 1, Whitespace)) /\ WordOk(q)}
    IN  IF starts = {} THEN None
        ELSE LET q  == Min(starts)
                 e1 == RunEnd(s, q, Letters)
                 w  == RunEnd(s, e1, Whitespace)
                 e2 == RunEnd(s, w, Letters)
             IN  Strip(SubSeq(s, q, e1 - 1) \o " " \o SubSeq(s, w, e2 - 1))

\* potential_name of the p-th entry of name_patterns, None when it has no match
name_patterns(s, p) ==
    CASE p = 1 -> LiteralThenRun(s, {"meu nome é "})
      [] p = 2 -> LiteralThenRun(s, {"chamo-me "})
      [] p = 3 -> LiteralThenRun(s, {"nome é ", "nome para "})
      [] p = 4 -> TwoWords(s)

\* len(potential_name.split()) >= 2 and not any(word in potential_name.lower() ...)
\* NameAccepted without the word count and the block list
NameAcceptedAny(potential_name) == potential_name # None

NameAccepted(potential_name) ==
    /\ potential_name # None
    /\ WordCount(potential_name) >= 2
    /\ ~ \E w \in 1..Len(common_words) : Contains(potential_name, common_words[w])

\* the loop over name_patterns: every accepted capture is assigned in turn
RECURSIVE NameLoop(_, _, _)
NameLoop(s, p, name) ==
    IF p > 4 THEN name
    ELSE NameLoop(s, p + 1, IF NameAccepted(name_patterns(s, p)) THEN name_patterns(s, p) ELSE name)

\* ExtractName without `if self.order_details["customer_name"] is None`
ExtractNameOverwrite(customer_name, found) ==
    IF found # None THEN found ELSE customer_name

\* if self.order_details["customer_name"] is None: ... with `found` the outcome of
\* the loop over name_patterns (None when no capture was accepted)
ExtractName(customer_name, found) ==
    IF customer_name = None THEN found ELSE customer_name

(***************************************************************************)
(* Pickup time                                                             *)
(***************************************************************************)

NoTime == [ok |-> FALSE, hour |-> "", minute |-> ""]

\* (\d{1,2})[h:. ]?(\d{0,2}) at position b with nothing after it to satisfy:
\* every quantifier keeps its greedy choice
GreedyTime(s, b) ==
    LET hl == IF InClass(s, b + 1, Digits) THEN 2 ELSE 1
        p1 == b + hl
        sl == IF InClass(s, p1, TimeSeparators) THEN 1 ELSE 0
        p2 == p1 + sl
        ml == IF InClass(s, p2, Digits) THEN (IF InClass(s, p2 + 1, Digits) THEN 2 ELSE 1) ELSE 0
    IN  [ok |-> TRUE, hour |-> SubSeq(s, b, b + hl - 1), minute |-> SubSeq(s, p2, p2 + ml - 1)]

\* r"<prefix>(?:às|as|para) (\d{1,2})[h:. ]?(\d{0,2})": the leftmost match
PrefixedTime(s, prefix) ==
    LET literals == {prefix \o "às ", prefix \o "as ", prefix \o "para "}
        starts == {i \in 1..Len(s) : \E l \in literals :
                        HasAt(s, i, l) /\ InClass(s, i + Len(l), Digits)}
    IN  IF starts = {} THEN NoTime
        ELSE LET i == Min(starts)
                 l == CHOOSE l \in literals : HasAt(s, i, l) /\ InClass(s, i + Len(l), Digits)
             IN  GreedyTime(s, i + Len(l))

\* TimeShapes of a pattern whose hour group may be empty, (\d{0,2})
TimeShapesEmptyHour ==
    << <<2, 1, 2>>, <<2, 1, 1>>, <<2, 1, 0>>, <<2, 0, 2>>, <<2, 0, 1>>, <<2, 0, 0>>,
       <<1, 1, 2>>, <<1, 1, 1>>, <<1, 1, 0>>, <<1, 0, 2>>, <<1, 0, 1>>, <<1, 0, 0>>,
       <<0, 0, 0>> >>

\* the lengths <<hour, separator, minute>> in the order the backtracking of
\* (\d{1,2})[h:. ]?(\d{0,2}) tries them
TimeShapes ==
    << <<2, 1, 2>>, <<2, 1, 1>>, <<2, 1, 0>>, <<2, 0, 2>>, <<2, 0, 1>>, <<2, 0, 0>>,
       <<1, 1, 2>>, <<1, 1, 1>>, <<1, 1, 0>>, <<1, 0, 2>>, <<1, 0, 1>>, <<1, 0, 0>> >>

ShapeMatches(s, i, shape) ==
    LET hl == shape[1]
        sl == shape[2]
        ml == shape[3]
        p1 == i + hl
        p2 == p1 + sl
        p3 == p2 + ml
    IN  /\ \A k \in i..(p1 - 1) : InClass(s, k, Digits)
        /\ sl = 1 => InClass(s, p1, TimeSeparators)
        /\ \A k \in p2..(p3 - 1) : InClass(s, k, Digits)
        /\ HasAt(s, p3, " hora")

\* r"(\d{1,2})[h:. ]?(\d{0,2}) (?:horas|hora)": the leftmost match, and at that
\* position the first shape the backtracking reaches
SuffixedTime(s) ==
    LET starts == {i \in 1..Len(s) : \E k \in 1..Len(TimeShapes) : ShapeMatches(s, i, TimeShapes[k])}
    IN  IF starts = {} THEN NoTime
        ELSE LET i  == Min(starts)
                 k  == Min({j \in 1..Len(TimeShapes) : ShapeMatches(s, i, TimeShapes[j])})
                 hl == TimeShapes[k][1]
                 p2 == i + hl + TimeShapes[k][2]
             IN  [ok |-> TRUE, hour |-> SubSeq(s, i, i + hl - 1),
                  minute |-> SubSeq(s, p2, p2 + TimeShapes[k][3] - 1)]

\* the match of the p-th entry of time_patterns
time_patterns(s, p) ==
    CASE p = 1 -> PrefixedTime(s, "")
      [] p = 2 -> SuffixedTime(s)
      [] p = 3 -> PrefixedTime(s, "levantar ")
      [] p = 4 -> PrefixedTime(s, "buscar ")

\* hour = int(group(1)); minute = int(group(2)) if group(2) else 0
HourOf(m) == StrToInt(m.hour)
MinuteOf(m) == IF m.minute # "" THEN StrToInt(m.minute) ELSE 0

\* if 0 <= hour <= 23 and 0 <= minute <= 59
\* TimeValid without the range test on hour and minute
TimeValidAnyNumber(m) == m.ok

TimeValid(m) ==
    /\ m.ok
    /\ 0 <= HourOf(m) /\ HourOf(m) <= 23
    /\ 0 <= MinuteOf(m) /\ MinuteOf(m) <= 59

\* f"{hour:02d}:{minute:02d}"
time_str(m) == Pad2(HourOf(m)) \o ":" \o Pad2(MinuteOf(m))

\* the loop over time_patterns: every valid match is assigned in turn
RECURSIVE TimeLoop(_, _, _)
TimeLoop(s, p, pickup) ==
    IF p > 4 THEN pickup
    ELSE TimeLoop(s, p + 1,
                  IF TimeValid(time_patterns(s, p)) THEN time_str(time_patterns(s, p)) ELSE pickup)

\* if self.order_details["pickup_time"] is None: ... with `found` the outcome of
\* the loop over time_patterns (None when no match was valid)
ExtractTime(pickup_time, found) ==
    IF pickup_time = None THEN found ELSE pickup_time

(***************************************************************************)
(* Menu, quantities, portions, modifiers                                   *)
(***************************************************************************)

\* the dict menu_items in its declaration order: <<item_key, item_name>>
menu_items ==
    << <<"frango do churrasco", "Frango do Churrasco">>,
       <<"1/2 frango", "1/2 Frango do Churrasco">>,
       <<"espetada de guia", "Espetada de Guia (Caleto)">>,
       <<"espetada de frango", "Espetada de Frango c/ Bacon">>,
       <<"entrecosto", "Dose de Entrecosto">>,
       <<"salsicha toscana", "Salsicha Toscana">>,
       <<"févera de porco", "Févera de Porco">>,
       <<"costeleta de vitela", "Costeleta de Vitela">>,
       <<"costeleta de porco", "Costeleta de Porco">>,
       <<"coelho", "Coelho">>,
       <<"costelinha", "Costelinha">>,
       <<"picanha", "Picanha">>,
       <<"bife do frango", "Bife do Frango">>,
       <<"bife do lombo", "Bife do Lombo">>,
       <<"batata frita", "Dose de Batata Frita">>,
       <<"batata frita barrosa", "Dose de Batata Frita Barrosa">>,
       <<"arroz", "Dose de Arroz">>,
       <<"salada mista", "Salada Mista">>,
       <<"salada de tomate", "Salada de Tomate">>,
       <<"salada de alface", "Salada de Alface">>,
       <<"feijão preto", "Dose de Feijão Preto">>,
       <<"esparregado", "Esparregado Grelos/Espinafres">>,
       <<"broa de milho", "Broa de Milho">>,
       <<"broa de avintes", "Broa de Avintes">>,
       <<"trança", "Trança (Caceté)">>,
       <<"cacete", "Trança (Caceté)">>,
       <<"bacalhau", "Bacalhau assado na brasa">>,
       <<"bacalhau assado", "Bacalhau assado na brasa">>,
       <<"refrigerante", "Refrigerantes 1 Litro">>,
       <<"vinho verde", "Vinho da Casa Cruzeiro Lima">>,
       <<"muralhas monção", "Vinho Branco Muralhas Monção">>,
       <<"casal garcia", "Vinho Branco Casal Garcia">>,
       <<"porta da ravessa", "Vinho Porta da Ravessa">>,
       <<"castiço", "Vinho Gasificado Castiço">>,
       <<"monte velho", "Vinho Monte Velho Tinto">>,
       <<"eugénio de almeida", "Vinho Eugénio de Almeida Tinto">> >>

CARNE_PERSONALIZACOES ==
    [molhos  |-> <<"molho da casa", "molho da guia", "molho sem alho", "sem molhos">>,
     picante |-> <<"sem picante", "pouco picante", "picante", "muito picante">>]

\* the list carnes of the item loop, matched against item_key
carnes == <<"frango", "espetada", "entrecosto", "févera", "costeleta", "coelho", "costelinha", "picanha", "bife">>

\* the list carnes of the final pass, matched against item["item"]
carnes_item == <<"Frango", "Espetada", "Entrecosto", "Févera", "Costeleta", "Coelho", "Costelinha", "Picanha", "Bife">>

NoMatch == [ok |-> FALSE, g1 |-> "", g2 |-> ""]

\* r"(\d+)\s+(?:de\s+)?([A-Za-zÀ-ÖØ-öø-ÿ\s]+)" anchored at i: the groups, with
\* the backtracking of \s+ into a last blank when no letter follows
QuantityFirstAt(s, i) ==
    LET e  == RunEnd(s, i, Digits)
        w  == RunEnd(s, e, Whitespace)
        d  == RunEnd(s, w + 2, Whitespace)
    IN  IF ~ (InClass(s, i, Digits) /\ w > e) THEN NoMatch
        ELSE IF HasAt(s, w, "de") /\ d > w + 2 /\ InClass(s, d, LettersOrSpace)
             THEN [ok |-> TRUE, g1 |-> SubSeq(s, i, e - 1),
                   g2 |-> SubSeq(s, d, RunEnd(s, d, LettersOrSpace) - 1)]
        ELSE IF HasAt(s, w, "de") /\ d >= w + 4
             THEN [ok |-> TRUE, g1 |-> SubSeq(s, i, e - 1), g2 |-> Char(s, d - 1)]
        ELSE IF InClass(s, w, LettersOrSpace)
             THEN [ok |-> TRUE, g1 |-> SubSeq(s, i, e - 1),
                   g2 |-> SubSeq(s, w, RunEnd(s, w, LettersOrSpace) - 1)]
        ELSE IF w >= e + 2
             THEN [ok |-> TRUE, g1 |-> SubSeq(s, i, e - 1), g2 |-> Char(s, w - 1)]
        ELSE NoMatch

\* r"([A-Za-zÀ-ÖØ-öø-ÿ\s]+)\s+(?:-\s+)?(\d+)" anchored at i: group 1 gives
\* back its last blank to \s+
QuantityLastAt(s, i) ==
    LET e  == RunEnd(s, i, LettersOrSpace)
        h  == RunEnd(s, e + 1, Whitespace)
    IN  IF ~ (e - i >= 2 /\ InClass(s, e - 1, Whitespace)) THEN NoMatch
        ELSE IF InClass(s, e, Digits)
             THEN [ok |-> TRUE, g1 |-> SubSeq(s, i, e - 2),
                   g2 |-> SubSeq(s, e, RunEnd(s, e, Digits) - 1)]
        ELSE IF HasAt(s, e, "-") /\ h > e + 1 /\ InClass(s, h, Digits)
             THEN [ok |-> TRUE, g1 |-> SubSeq(s, i, e - 2),
                   g2 |-> SubSeq(s, h, RunEnd(s, h, Digits) - 1)]
        ELSE NoMatch

\* the p-th entry of quantity_patterns anchored at i
QuantityAt(s, i, p) == IF p = 1 THEN QuantityFirstAt(s, i) ELSE QuantityLastAt(s, i)

\* the match at the leftmost of the positions where the pattern matches
QuantityLeftmost(s, p, starts) ==
    IF starts = {} THEN NoMatch ELSE QuantityAt(s, Min(starts), p)

\* re.search of the p-th entry of quantity_patterns: the leftmost match
quantity_patterns(s, p) ==
    QuantityLeftmost(s, p, {i \in 1..Len(s) : QuantityAt(s, i, p).ok})

IsInt(g) == g # "" /\ \A k \in 1..Len(g) : Char(g, k) \in Digits

\* the body of `for pattern in quantity_patterns` on a match m: the number it
\* gives item_key, when it names the key and int() takes the other group
MatchQuantity(m, item_key) ==
    LET g == IF Contains(m.g2, item_key) THEN m.g1 ELSE m.g2
    IN  IF m.ok /\ (Contains(m.g1, item_key) \/ Contains(m.g2, item_key)) /\ IsInt(g)
        THEN [ok |-> TRUE, quantity |-> StrToInt(g)]
        ELSE [ok |-> FALSE, quantity |-> 1]

\* quantity = 1, overwritten by the first pattern that gives a number (break)
FirstQuantity(q1, q2) ==
    IF q1.ok THEN q1.quantity ELSE IF q2.ok THEN q2.quantity ELSE 1

\* the quantity loop of one item_key
QuantityLoop(s, item_key) ==
    FirstQuantity(MatchQuantity(quantity_patterns(s, 1), item_key),
                  MatchQuantity(quantity_patterns(s, 2), item_key))

\* the first entry of a list that occurs in the message, None when none does
FirstIn(list, s) ==
    IF \E k \in 1..Len(list) : Contains(s, list[k])
    THEN list[Min({k \in 1..Len(list) : Contains(s, list[k])})]
    ELSE None

\* a dict personalizacoes holding the kinds that were found
Personalizacoes(molho, picante) ==
    [k \in ({"molho"} \cap (IF molho # None THEN {"molho"} ELSE {}))
            \cup ({"picante"} \cap (IF picante # None THEN {"picante"} ELSE {}))
        |-> IF k = "molho" THEN molho ELSE picante]

\* personalizacoes of an item mention: looked up only for meat keys
MentionPersonalizacoes(s, item_key) ==
    IF \E c \in 1..Len(carnes) : Contains(item_key, carnes[c])
    THEN Personalizacoes(FirstIn(CARNE_PERSONALIZACOES.molhos, s),
                         FirstIn(CARNE_PERSONALIZACOES.picante, s))
    ELSE Personalizacoes(None, None)

\* the item mentions of the item loop, in the order of menu_items: for every
\* item_key in message_lower its item_name, quantity and personalizacoes
RECURSIVE Mentions(_, _)
Mentions(s, k) ==
    IF k > Len(menu_items) THEN <<>>
    ELSE (IF Contains(s, menu_items[k][1])
          THEN <<[item |-> menu_items[k][2],
                  quantity |-> QuantityLoop(s, menu_items[k][1]),
                  personalizacoes |-> MentionPersonalizacoes(s, menu_items[k][1])]>>
          ELSE <<>>) \o Mentions(s, k + 1)

\* the alternation that opens the i-th entry of portion_patterns (i = 0, 1)
PortionWords(i) == IF i = 1 THEN {"meia", "1/2"} ELSE {"uma", "1"}

\* r"(?:uma|1)\s+dose\s+de\s+([A-Za-zÀ-ÖØ-öø-ÿ\s]+)" (i = 0) and its "meia"
\* form (i = 1) anchored at p: group 1 and the position after the match
PortionAt(s, i, p) ==
    LET first == {x \in PortionWords(i) : HasAt(s, p, x)}
        a  == CHOOSE x \in first : TRUE
        b1 == p + Len(a)
        w1 == RunEnd(s, b1, Whitespace)
        w2 == RunEnd(s, w1 + 4, Whitespace)
        w3 == RunEnd(s, w2 + 2, Whitespace)
    IN  IF first = {} THEN [ok |-> FALSE, g1 |-> "", end |-> p]
        ELSE IF ~ (/\ w1 > b1 /\ HasAt(s, w1, "dose")
                   /\ w2 > w1 + 4 /\ HasAt(s, w2, "de")
                   /\ w3 > w2 + 2)
             THEN [ok |-> FALSE, g1 |-> "", end |-> p]
        ELSE IF InClass(s, w3, LettersOrSpace)
             THEN [ok |-> TRUE, g1 |-> SubSeq(s, w3, RunEnd(s, w3, LettersOrSpace) - 1),
                   end |-> RunEnd(s, w3, LettersOrSpace)]
        ELSE IF w3 >= w2 + 4
             THEN [ok |-> TRUE, g1 |-> Char(s, w3 - 1), end |-> w3]
        ELSE [ok |-> FALSE, g1 |-> "", end |-> p]

\* full_item for item_base: the first menu entry whose key contains item_base,
\* with the "1/2 " prefix of a half portion; None when no key contains it
full_item(item_base, portion_type) ==
    LET hits == {k \in 1..Len(menu_items) : Contains(menu_items[k][1], item_base)}
        item_name == menu_items[Min(hits)][2]
    IN  IF hits = {} THEN None
        ELSE IF Contains(item_name, "1/2") /\ portion_type = "1/2" THEN item_name
        ELSE IF portion_type = "1/2" /\ ~ Contains(item_name, "1/2") THEN "1/2 " \o item_name
        ELSE item_name

\* re.finditer of the i-th portion pattern from position `from` on: the
\* full_item of every match, left to right
RECURSIVE PortionScan(_, _, _)
PortionScan(s, i, from) ==
    LET starts == {p \in from..Len(s) : PortionAt(s, i, p).ok}
    IN  IF starts = {} THEN <<>>
        ELSE LET m == PortionAt(s, i, Min(starts))
             IN  <<full_item(Strip(m.g1), IF i = 1 THEN "1/2" ELSE "1")>> \o PortionScan(s, i, m.end)

\* for i, pattern in enumerate(portion_patterns)
portion_patterns(s) == PortionScan(s, 0, 1) \o PortionScan(s, 1, 1)

\* everything _extract_order_details reads off message_lower alone
Normalize(message_lower) ==
    [name     |-> NameLoop(message_lower, 1, None),
     time     |-> TimeLoop(message_lower, 1, None),
     mentions |-> Mentions(message_lower, 1),
     portions |-> portion_patterns(message_lower),
     molho    |-> FirstIn(CARNE_PERSONALIZACOES.molhos, message_lower),
     picante  |-> FirstIn(CARNE_PERSONALIZACOES.picante, message_lower)]

(***************************************************************************)
(* Inputs                                                                  *)
(***************************************************************************)

\* utterances committed per call, the customer's and the assistant's together
MaxTurns == 3

\* msg.content of the user_speech_committed events of a call in which the
\* customer orders, corrects quantities and confirms
OrderUtterances ==
    {"ok",
     "Maria Silva 2 frango do churrasco com molho da casa sem picante as 15h30",
     "agora 3 frango do churrasco",
     "dois frangos",
     "agora três frangos",
     "confirmo"}

\* ... and of a call in which the customer asks for the menu, finishes and confirms
PolicyUtterances ==
    {"",
     "Maria Silva 2 frango do churrasco com molho da casa sem picante as 15h30",
     "frango do churrasco com molho da guia",
     "quero batata frita barrosa",
     "menu confirmar",
     "terminar",
     "confirmo"}

\* ... and of a call in which the customer gives the order, the pickup time
\* and the name in sentences
FieldUtterances ==
    {"",
     "quero um frango do churrasco com molho da casa e picante, para as 15h30, em nome de Maria Silva",
     "meu nome é Maria Silva",
     "para 15h30 ou 16 horas",
     "as 25h",
     "bacalhau e arroz",
     "confirmar"}

\* ... and of a call in which the customer orders by portions and numbers
PortionUtterances ==
    {"ah",
     "0 arroz",
     "uma dose de salada",
     "meia dose de arroz",
     "Maria Silva 2 frango do churrasco com molho da casa sem picante as 15h30",
     "confirmo"}

\* ... and of a call in which the customer gives each meat item a sauce and a
\* spice level of the vocabulary
ModifierUtterances ==
    {"ok",
     "Maria Silva 2 frango do churrasco com molho da casa sem picante as 15h30",
     "picanha com molho da guia pouco picante",
     "entrecosto com molho sem alho e picante",
     "coelho sem molhos muito picante",
     "confirmo"}

\* ... and of a short call that is confirmed
SessionUtterances ==
    {"ok",
     "Maria Silva 2 frango do churrasco com molho da casa sem picante as 15h30",
     "confirmo"}

\* further messages the extraction is applied to
OtherMessages ==
    {"meia dose de arroz",
     "1/2 frango com molho da casa",
     "bacalhau assado - 2",
     "2 de picanha muito picante",
     "uma dose de batata frita e 3 costelinha",
     "as 15h75",
     "levantar as 9 e buscar para 24:00",
     "chamo-me rui pedro para as 16 horas",
     "bom dia, nome para joão pereira",
     "picanha sem molhos e coelho",
     "arroz - 0",
     "00 picanha",
     "uma dose de xyz",
     "meia dose de arr",
     "1/2 dose de entrecosto",
     "uma dose de  ",
     "daqui a uma hora"}

UserUtterances ==
    OrderUtterances \cup PolicyUtterances \cup FieldUtterances \cup PortionUtterances
        \cup ModifierUtterances

\* msg.content of the agent_speech_committed events the language model of the
\* pipeline produces on its own
AssistantReplies ==
    {"", "Sim, uma dose de entrecosto.", "Ana Costa, para as 18h00, molho da guia?"}

\* MENU[:150]
MENU_150 ==
    "MENU DO RESTAURANTE PORTUGUÊS:\n\nCARNE:\n1 Frango do Churrasco - 7.90€\n1/2 Frango do Churrasco - 4.50€\n1/2 Frango do Churrasco * - 8.00€\n1 Espetada de G"

\* item["item"] of every entry the order can hold
ItemNames ==
    {menu_items[k][2] : k \in 1..Len(menu_items)}
        \cup {"1/2 " \o menu_items[k][2] : k \in 1..Len(menu_items)}

\* the texts whose lower-case form and normal form are computed once
KnownMessages ==
    UserUtterances \cup AssistantReplies \cup OtherMessages
        \cup {"Molho?", "Picante?", "Nome?", "Hora?", "Registado.", MENU_150}

LowerKnown ==
    [m \in KnownMessages \cup {Lower(k) : k \in KnownMessages} \cup ItemNames |-> Lower(m)]

\* message.lower()
lower(message) ==
    IF message \in DOMAIN LowerKnown THEN LowerKnown[message] ELSE Lower(message)

LowerMessages == {LowerKnown[k] : k \in KnownMessages}

NormalizedKnown == [m \in LowerMessages |-> Normalize(m)]

\* what the patterns find in message_lower
Normalized(message_lower) ==
    IF message_lower \in LowerMessages
    THEN NormalizedKnown[message_lower]
    ELSE Normalize(message_lower)

(***************************************************************************)
(* Order state                                                             *)
(***************************************************************************)

HasItem(items, item_name) == \E k \in 1..Len(items) : items[k].item = item_name

\* personalizacoes[kind] = value
SetKind(personalizacoes, kind, value) ==
    [k \in DOMAIN personalizacoes \cup {kind} |-> IF k = kind THEN value ELSE personalizacoes[k]]

\* UpsertItem that leaves the quantity of an existing entry alone
UpsertItemKeepQuantity(items, item_name, quantity, personalizacoes) ==
    IF \E k \in 1..Len(items) : items[k].item = item_name
    THEN items
    ELSE Append(items, [item |-> item_name, quantity |-> quantity,
                        personalizacoes |-> personalizacoes])

\* UpsertItem that takes an existing entry out and appends the new one
UpsertItemMoveToEnd(items, item_name, quantity, personalizacoes) ==
    Append(SelectSeq(items, LAMBDA existing : existing.item # item_name),
           [item |-> item_name, quantity |-> quantity,
            personalizacoes |-> personalizacoes])

\* UpsertItem without the search for an existing entry
UpsertItemAppend(items, item_name, quantity, personalizacoes) ==
    Append(items, [item |-> item_name, quantity |-> quantity,
                   personalizacoes |-> personalizacoes])

\* the upsert of the item loop: append a new entry, or overwrite the quantity of
\* the existing one and, when the mention carries any, its personalizacoes
UpsertItem(items, item_name, quantity, personalizacoes) ==
    IF ~ HasItem(items, item_name)
    THEN Append(items, [item |-> item_name, quantity |-> quantity,
                        personalizacoes |-> personalizacoes])
    ELSE [k \in 1..Len(items) |->
            IF items[k].item = item_name
            THEN [item |-> item_name, quantity |-> quantity,
                  personalizacoes |-> IF DOMAIN personalizacoes # {}
                                      THEN personalizacoes
                                      ELSE items[k].personalizacoes]
            ELSE items[k]]

\* for item_key, item_name in menu_items.items(): if item_key in message_lower
RECURSIVE ItemLoop(_, _, _)
ItemLoop(items, mentions, k) ==
    IF k > Len(mentions) THEN items
    ELSE ItemLoop(UpsertItem(items, mentions[k].item, mentions[k].quantity,
                             mentions[k].personalizacoes),
                  mentions, k + 1)

\* AddPortion without `if not any(item["item"] == full_item ...)`
AddPortionAlways(items, name) ==
    IF name = None THEN items
    ELSE Append(items, [item |-> name, quantity |-> 1,
                        personalizacoes |-> Personalizacoes(None, None)])

\* the body of `for match in matches`: append the portion item if it is new
AddPortion(items, name) ==
    IF name = None \/ HasItem(items, name) THEN items
    ELSE Append(items, [item |-> name, quantity |-> 1,
                        personalizacoes |-> Personalizacoes(None, None)])

RECURSIVE PortionLoop(_, _, _)
PortionLoop(items, portions, k) ==
    IF k > Len(portions) THEN items
    ELSE PortionLoop(AddPortion(items, portions[k]), portions, k + 1)

\* any(carne in item["item"] for carne in carnes) of the final pass, over the
\* names an item can have
CarneNames == [n \in ItemNames |-> \E c \in 1..Len(carnes_item) : Contains(n, carnes_item[c])]

IsCarne(item_name) == CarneNames[item_name]

\* FillPersonalizacoes that writes nothing
FillNothing(entry, molho, picante) == entry

\* the final pass over one item: a meat item lacking a kind takes the first
\* value of that kind the message contains
FillPersonalizacoes(entry, molho, picante) ==
    LET p0 == entry.personalizacoes
        p1 == IF "molho" \notin DOMAIN p0 /\ molho # None THEN SetKind(p0, "molho", molho) ELSE p0
        p2 == IF "picante" \notin DOMAIN p1 /\ picante # None THEN SetKind(p1, "picante", picante) ELSE p1
    IN  IF IsCarne(entry.item) THEN [entry EXCEPT !.personalizacoes = p2] ELSE entry

PersonalizacoesPass(items, molho, picante) ==
    IF items = <<>> THEN <<>>
    ELSE [k \in 1..Len(items) |-> FillPersonalizacoes(items[k], molho, picante)]

\* the assignments of _extract_order_details, given what its patterns found
\* in the message
ExtractFound(order, found, is_user) ==
    [customer_name |-> ExtractName(order.customer_name, found.name),
     pickup_time   |-> ExtractTime(order.pickup_time, found.time),
     items         |-> PersonalizacoesPass(
                           PortionLoop(IF is_user
                                       THEN ItemLoop(order.items, found.mentions, 1)
                                       ELSE order.items,
                                       found.portions, 1),
                           found.molho, found.picante)]

\* ConversationTracker._extract_order_details(message, is_user) on order_details
extract_order_details(order, message, is_user) ==
    ExtractFound(order, Normalized(lower(message)), is_user)

\* ConversationTracker.__init__
EmptyOrder == [customer_name |-> None, pickup_time |-> None, items |-> <<>>]

\* one line of get_order_summary
ItemDesc(entry) ==
    LET p == entry.personalizacoes
        listed == (IF "molho" \in DOMAIN p THEN <<p["molho"]>> ELSE <<>>)
                    \o (IF "picante" \in DOMAIN p THEN <<p["picante"]>> ELSE <<>>)
    IN  "- " \o IntToStr(entry.quantity) \o "x " \o entry.item
          \o (IF Len(listed) = 2 THEN " (" \o listed[1] \o ", " \o listed[2] \o ")"
              ELSE IF Len(listed) = 1 THEN " (" \o listed[1] \o ")"
              ELSE "")

RECURSIVE ItemLines(_, _)
ItemLines(items, k) ==
    IF k > Len(items) THEN "" ELSE ItemDesc(items[k]) \o "\n" \o ItemLines(items, k + 1)

\* ConversationTracker.get_order_summary
get_order_summary(order) ==
    IF order.items = <<>> THEN "Nenhum item foi pedido ainda."
    ELSE "Resumo do pedido:\n" \o ItemLines(order.items, 1)
           \o (IF order.pickup_time # None
               THEN "\nHorário de levantamento: " \o order.pickup_time ELSE "")
           \o (IF order.customer_name # None
               THEN "\nNome: " \o order.customer_name ELSE "")

(***************************************************************************)
(* Conversation policy: process_user_speech after its extraction           *)
(***************************************************************************)

\* itens_carne: any(c in item["item"].lower() for c in [...]), over the names
\* an item can have
itens_carne == [n \in ItemNames |-> \E c \in 1..Len(carnes) : Contains(lower(n), carnes[c])]

IsItemCarne(entry) == itens_carne[entry.item]

\* a meat item the loop over itens_carne stops at
LacksModifier(entry) ==
    /\ IsItemCarne(entry)
    /\ ("molho" \notin DOMAIN entry.personalizacoes \/ "picante" \notin DOMAIN entry.personalizacoes)

NeedsModifier(items) == \E k \in 1..Len(items) : LacksModifier(items[k])

\* for item in itens_carne: the question of the first item lacking a kind,
\* the sauce before the spice level
ModifierQuestion(items) ==
    LET k == Min({j \in 1..Len(items) : LacksModifier(items[j])})
    IN  IF "molho" \notin DOMAIN items[k].personalizacoes THEN "Molho?" ELSE "Picante?"

\* the keywords of process_user_speech, over the contents a task can have
\* "menu" in content or "cardápio" in content or "carta" in content
MenuContents ==
    [c \in LowerMessages |->
        Contains(c, "menu") \/ Contains(c, "cardápio") \/ Contains(c, "carta")]

\* "confirmar" in content or "confirmo" in content
ConfirmContents ==
    [c \in LowerMessages |-> Contains(c, "confirmar") \/ Contains(c, "confirmo")]

\* "completo" in content or "terminar" in content
FinishContents ==
    [c \in LowerMessages |-> Contains(c, "completo") \/ Contains(c, "terminar")]

AsksMenu(content) == MenuContents[content]
SaysConfirm(content) == ConfirmContents[content]
SaysFinish(content) == FinishContents[content]

CompletionKeyword(content) == SaysConfirm(content) \/ SaysFinish(content)

\* Policy with the pickup time asked for before the name
PolicyTimeFirst(order, content) ==
    IF NeedsModifier(order.items)
    THEN [action |-> "AskMissingModifier", text |-> ModifierQuestion(order.items)]
    ELSE IF AsksMenu(content)
    THEN [action |-> "Speak", text |-> MENU_150]
    ELSE IF CompletionKeyword(content) /\ order.items = <<>>
    THEN [action |-> "Silent", text |-> None]
    ELSE IF CompletionKeyword(content) /\ order.pickup_time = None
    THEN [action |-> "AskMissingField", text |-> "Hora?"]
    ELSE IF CompletionKeyword(content) /\ order.customer_name = None
    THEN [action |-> "AskMissingField", text |-> "Nome?"]
    ELSE IF SaysConfirm(content)
    THEN [action |-> "Confirm", text |-> "Registado."]
    ELSE IF SaysFinish(content)
    THEN [action |-> "Summarize", text |-> get_order_summary(order)]
    ELSE [action |-> "Silent", text |-> None]

\* Policy without the test for an empty item list in the completion block
PolicyNoItemsCheck(order, content) ==
    IF NeedsModifier(order.items)
    THEN [action |-> "AskMissingModifier", text |-> ModifierQuestion(order.items)]
    ELSE IF AsksMenu(content)
    THEN [action |-> "Speak", text |-> MENU_150]
    ELSE IF CompletionKeyword(content) /\ order.customer_name = None
    THEN [action |-> "AskMissingField", text |-> "Nome?"]
    ELSE IF CompletionKeyword(content) /\ order.pickup_time = None
    THEN [action |-> "AskMissingField", text |-> "Hora?"]
    ELSE IF SaysConfirm(content)
    THEN [action |-> "Confirm", text |-> "Registado."]
    ELSE IF SaysFinish(content) /\ order.items # <<>>
    THEN [action |-> "Summarize", text |-> get_order_summary(order)]
    ELSE [action |-> "Silent", text |-> None]

\* Policy without the test for a missing pickup time in the completion block
PolicyNoTimeCheck(order, content) ==
    IF NeedsModifier(order.items)
    THEN [action |-> "AskMissingModifier", text |-> ModifierQuestion(order.items)]
    ELSE IF AsksMenu(content)
    THEN [action |-> "Speak", text |-> MENU_150]
    ELSE IF CompletionKeyword(content) /\ order.items = <<>>
    THEN [action |-> "Silent", text |-> None]
    ELSE IF CompletionKeyword(content) /\ order.customer_name = None
    THEN [action |-> "AskMissingField", text |-> "Nome?"]
    ELSE IF SaysConfirm(content)
    THEN [action |-> "Confirm", text |-> "Registado."]
    ELSE IF SaysFinish(content)
    THEN [action |-> "Summarize", text |-> get_order_summary(order)]
    ELSE [action |-> "Silent", text |-> None]

\* Policy that reads the order out as soon as nothing is missing, keyword or not
PolicySummarizeWhenComplete(order, content) ==
    IF NeedsModifier(order.items)
    THEN [action |-> "AskMissingModifier", text |-> ModifierQuestion(order.items)]
    ELSE IF AsksMenu(content)
    THEN [action |-> "Speak", text |-> MENU_150]
    ELSE IF CompletionKeyword(content) /\ order.items = <<>>
    THEN [action |-> "Silent", text |-> None]
    ELSE IF CompletionKeyword(content) /\ order.customer_name = None
    THEN [action |-> "AskMissingField", text |-> "Nome?"]
    ELSE IF CompletionKeyword(content) /\ order.pickup_time = None
    THEN [action |-> "AskMissingField", text |-> "Hora?"]
    ELSE IF SaysConfirm(content)
    THEN [action |-> "Confirm", text |-> "Registado."]
    ELSE IF order.items # <<>> /\ order.customer_name # None /\ order.pickup_time # None
    THEN [action |-> "Summarize", text |-> get_order_summary(order)]
    ELSE [action |-> "Silent", text |-> None]

\* Policy with the completion keywords looked at before the meat items
PolicyCompletionFirst(order, content) ==
    IF CompletionKeyword(content) /\ order.items # <<>> /\ order.customer_name = None
    THEN [action |-> "AskMissingField", text |-> "Nome?"]
    ELSE IF CompletionKeyword(content) /\ order.items # <<>> /\ order.pickup_time = None
    THEN [action |-> "AskMissingField", text |-> "Hora?"]
    ELSE IF SaysConfirm(content) /\ order.items # <<>>
    THEN [action |-> "Confirm", text |-> "Registado."]
    ELSE IF NeedsModifier(order.items)
    THEN [action |-> "AskMissingModifier", text |-> ModifierQuestion(order.items)]
    ELSE [action |-> "Silent", text |-> None]

\* the branch process_user_speech takes on the order its extraction left:
\* the kind of action and the text handed to adaptive_say (None for silence)
Policy(order, content) ==
    IF NeedsModifier(order.items)
    THEN [action |-> "AskMissingModifier", text |-> ModifierQuestion(order.items)]
    ELSE IF AsksMenu(content)
    THEN [action |-> "Speak", text |-> MENU_150]
    ELSE IF CompletionKeyword(content) /\ order.items = <<>>
    THEN [action |-> "Silent", text |-> None]
    ELSE IF CompletionKeyword(content) /\ order.customer_name = None
    THEN [action |-> "AskMissingField", text |-> "Nome?"]
    ELSE IF CompletionKeyword(content) /\ order.pickup_time = None
    THEN [action |-> "AskMissingField", text |-> "Hora?"]
    ELSE IF SaysConfirm(content)
    THEN [action |-> "Confirm", text |-> "Registado."]
    ELSE IF SaysFinish(content)
    THEN [action |-> "Summarize", text |-> get_order_summary(order)]
    ELSE [action |-> "Silent", text |-> None]

(***************************************************************************)
(* The call session                                                        *)
(***************************************************************************)

VARIABLES
    transcript,      \* conversation_tracker.transcript: <<[role, content]>>
    order_details,   \* conversation_tracker.order_details
    tasks,           \* the process_user_speech tasks, in creation order
    said,            \* texts handed to assistant.say and not yet committed
    deliveries,      \* the calls of send_to_webhook, in order
    committed,       \* number of committed speech events with non-empty content
    ignored,         \* number of those the noise filter of the handler dropped
    MAKE_WEBHOOK_URL,\* the module constant read from the environment
    room,            \* "connected", "disconnecting" (the send task sleeps) or "disconnected"
    shutdown         \* the shutdown callback log_usage has run

\* the state of main.py: the retry loop of text_to_speech_eleven_labs and the
\* memory of generate_gpt_response
VARIABLES
    max_retries,          \* the parameter of the call of text_to_speech_eleven_labs
    attempt,              \* its local counter
    posted,               \* what requests.post did on each request of the call
    tts_pc,               \* "idle", "loop" (at the while test) or "returned"
    conversation_history, \* the module list: <<[role, content]>>
    gpt_response          \* what the last call of generate_gpt_response returned

\* the state of a ResponseCache
VARIABLES
    cache,                \* self.cache in insertion order: <<[key, audio]>>
    max_size,             \* self.max_size
    last_call             \* the last call of get or set, and the cache before it

mainVars == <<max_retries, attempt, posted, tts_pc, conversation_history, gpt_response>>

cacheVars == <<cache, max_size, last_call>>

trackerVars == <<transcript, order_details, tasks, said, deliveries,
                 committed, ignored, MAKE_WEBHOOK_URL, room, shutdown>>

vars == <<transcript, order_details, tasks, said, deliveries,
          committed, ignored, MAKE_WEBHOOK_URL, room, shutdown,
          max_retries, attempt, posted, tts_pc, conversation_history, gpt_response,
          cache, max_size, last_call>>

\* the defaults of text_to_speech_eleven_labs(text, max_retries=3, ...) and of
\* ResponseCache(max_size=100)
DefaultMaxRetries == 3
DefaultMaxSize == 100

\* the values of MAKE_WEBHOOK_URL: unset, the placeholder of the template,
\* and a real hook
PlaceholderUrl == "https://hook.eu2.make.com/your_webhook_id_here"
WebhookUrls == {"", PlaceholderUrl, "https://hook.eu2.make.com/abc123"}

\* what requests.post can do: answer with a status code, or raise
Responses ==
    {[raised |-> FALSE, status_code |-> 200],
     [raised |-> FALSE, status_code |-> 500],
     [raised |-> TRUE, status_code |-> 0]}

Init ==
    /\ transcript = <<>>
    /\ order_details = EmptyOrder
    /\ tasks = <<>>
    /\ said = <<>>
    /\ deliveries = <<>>
    /\ committed = 0
    /\ ignored = 0
    /\ MAKE_WEBHOOK_URL \in WebhookUrls
    /\ room = "connected"
    /\ shutdown = FALSE
    /\ max_retries = DefaultMaxRetries
    /\ attempt = 0
    /\ posted = <<>>
    /\ tts_pc = "idle"
    /\ conversation_history = <<>>
    /\ gpt_response = None
    /\ cache = <<>>
    /\ max_size = DefaultMaxSize
    /\ last_call = [op |-> "none", text |-> None, audio |-> None,
                    result |-> None, before |-> <<>>]

\* add_user_message that extracts but records nothing
add_user_message_unrecorded(message) ==
    /\ transcript' = transcript
    /\ order_details' = extract_order_details(order_details, message, TRUE)

\* ConversationTracker.add_user_message
add_user_message(message) ==
    /\ transcript' = Append(transcript, [role |-> "user", content |-> message])
    /\ order_details' = extract_order_details(order_details, message, TRUE)

\* add_assistant_message that puts the entry in front
add_assistant_message_front(message) ==
    /\ transcript' = <<[role |-> "assistant", content |-> message]>> \o transcript
    /\ order_details' = extract_order_details(order_details, message, FALSE)

\* ConversationTracker.add_assistant_message
add_assistant_message(message) ==
    /\ transcript' = Append(transcript, [role |-> "assistant", content |-> message])
    /\ order_details' = extract_order_details(order_details, message, FALSE)

\* on_user_speech_committed of an empty or very short utterance: ignored
UserSpeechIgnored(utterances) ==
    \E raw \in utterances :
        /\ room = "connected" /\ ~ shutdown
        /\ Len(lower(raw)) < 3
        /\ IF raw = ""
           THEN UNCHANGED <<committed, ignored>>
           ELSE /\ committed < MaxTurns
                /\ committed' = committed + 1
                /\ ignored' = ignored + 1
        /\ UNCHANGED <<transcript, order_details, tasks, said, deliveries,
                       MAKE_WEBHOOK_URL, mainVars, cacheVars, room, shutdown>>

\* on_user_speech_committed: the utterance enters the transcript, is extracted
\* and a process_user_speech task is created for it
UserSpeechCommitted(utterances) ==
    \E raw \in utterances :
        LET content == lower(raw)
        IN  /\ room = "connected" /\ ~ shutdown
            /\ Len(content) >= 3
            /\ committed < MaxTurns
            /\ committed' = committed + 1
            /\ add_user_message(content)
            /\ tasks' = Append(tasks, [content |-> content, pc |-> "created",
                                       action |-> None, text |-> None,
                                       before |-> EmptyOrder, after |-> EmptyOrder])
            /\ UNCHANGED <<said, deliveries, ignored, MAKE_WEBHOOK_URL, mainVars, cacheVars, room, shutdown>>

\* the first step of the oldest task not yet started, up to its first await:
\* the second extraction of the utterance and the policy branch.  `before` and
\* `after` record the order around the extraction.  Only the Confirm branch
\* has code after its await; a task of any other branch is done here, since
\* its await is followed by `return` alone.
ProcessStart ==
    \E t \in 1..Len(tasks) :
        /\ ~ shutdown
        /\ tasks[t].pc = "created"
        /\ \A u \in 1..(t - 1) : tasks[u].pc # "created"
        /\ LET order == extract_order_details(order_details, tasks[t].content, TRUE)
               p     == Policy(order, tasks[t].content)
           IN  /\ order_details' = order
               /\ tasks' = [tasks EXCEPT ![t] =
                               [content |-> tasks[t].content,
                                pc      |-> IF p.action = "Confirm" THEN "say" ELSE "done",
                                action  |-> p.action,
                                text    |-> p.text,
                                before  |-> order_details,
                                after   |-> order]]
               /\ said' = IF p.text = None THEN said ELSE Append(said, p.text)
        /\ UNCHANGED <<transcript, deliveries, committed, ignored, MAKE_WEBHOOK_URL, mainVars, cacheVars, room, shutdown>>

\* `not MAKE_WEBHOOK_URL or MAKE_WEBHOOK_URL == "...your_webhook_id_here"`
Configured(url) == url # "" /\ url # PlaceholderUrl

\* send_to_webhook that takes any answer of the sink for a success
WebhookReturnAnyStatus(url, response) == Configured(url) /\ ~ response.raised

\* the value send_to_webhook returns
WebhookReturn(url, response) ==
    /\ Configured(url)
    /\ ~ response.raised
    /\ response.status_code = 200

\* send_to_webhook that sends the order of a call only once
send_once(cause) ==
    \E response \in Responses :
        deliveries' = IF deliveries # <<>> THEN deliveries
                      ELSE <<[cause      |-> cause,
                              order      |-> order_details,
                              transcript |-> transcript,
                              requested  |-> Configured(MAKE_WEBHOOK_URL),
                              response   |-> response,
                              result     |-> WebhookReturn(MAKE_WEBHOOK_URL, response)]>>

\* ConversationTracker.send_to_webhook: the payload it builds from the
\* transcript and the order as they are when it is called, whether a request
\* is made, what the sink does with it, and the value returned
send_to_webhook(cause) ==
    \E response \in Responses :
        deliveries' = Append(deliveries,
                             [cause      |-> cause,
                              order      |-> order_details,
                              transcript |-> transcript,
                              requested  |-> Configured(MAKE_WEBHOOK_URL),
                              response   |-> response,
                              result     |-> WebhookReturn(MAKE_WEBHOOK_URL, response)])

\* await adaptive_say(assistant, "Registado.") returns: send_to_webhook
ConfirmDelivers ==
    \E t \in 1..Len(tasks) :
        /\ ~ shutdown
        /\ tasks[t].pc = "say"
        /\ send_to_webhook("confirm")
        /\ tasks' = [tasks EXCEPT ![t].pc = "done"]
        /\ UNCHANGED <<transcript, order_details, said, committed, ignored, MAKE_WEBHOOK_URL, mainVars, cacheVars, room, shutdown>>

\* on_agent_speech_committed for the oldest text the tasks handed to say
SaidSpeechCommitted ==
    /\ room = "connected" /\ ~ shutdown
    /\ said # <<>>
    /\ committed < MaxTurns
    /\ committed' = committed + 1
    /\ add_assistant_message(Head(said))
    /\ said' = Tail(said)
    /\ UNCHANGED <<tasks, deliveries, ignored, MAKE_WEBHOOK_URL, mainVars, cacheVars, room, shutdown>>

\* on_agent_speech_committed for an answer of the language model; empty
\* content is not recorded
AgentSpeechCommitted ==
    \E content \in AssistantReplies :
        /\ room = "connected" /\ ~ shutdown
        /\ committed < MaxTurns
        /\ IF content # ""
           THEN add_assistant_message(content) /\ committed' = committed + 1
           ELSE UNCHANGED <<transcript, order_details, committed>>
        /\ UNCHANGED <<tasks, said, deliveries, ignored, MAKE_WEBHOOK_URL, mainVars, cacheVars, room, shutdown>>

\* on_room_disconnected: creates the task send_transcript_on_disconnect
RoomDisconnected ==
    /\ room = "connected" /\ ~ shutdown
    /\ room' = "disconnecting"
    /\ UNCHANGED <<transcript, order_details, tasks, said, deliveries,
                   committed, ignored, MAKE_WEBHOOK_URL, mainVars, cacheVars, shutdown>>

\* send_transcript_on_disconnect after its sleep: send_to_webhook
SendTranscriptOnDisconnect ==
    /\ room = "disconnecting" /\ ~ shutdown
    /\ send_to_webhook("disconnect")
    /\ room' = "disconnected"
    /\ UNCHANGED <<transcript, order_details, tasks, said,
                   committed, ignored, MAKE_WEBHOOK_URL, mainVars, cacheVars, shutdown>>

\* log_usage, the shutdown callback: send_to_webhook; nothing runs after it
LogUsage ==
    /\ ~ shutdown
    /\ send_to_webhook("shutdown")
    /\ shutdown' = TRUE
    /\ UNCHANGED <<transcript, order_details, tasks, said,
                   committed, ignored, MAKE_WEBHOOK_URL, mainVars, cacheVars, room>>

Next(utterances) ==
    \/ UserSpeechIgnored(utterances)
    \/ UserSpeechCommitted(utterances)
    \/ ProcessStart
    \/ ConfirmDelivers
    \/ SaidSpeechCommitted
    \/ AgentSpeechCommitted

\* the start of a deployment whose hook is configured
InitConfigured == Init /\ Configured(MAKE_WEBHOOK_URL)

\* the call with its end: the room disconnects, the job shuts down
NextSession(utterances) ==
    \/ Next(utterances)
    \/ RoomDisconnected
    \/ SendTranscriptOnDisconnect
    \/ LogUsage

\* a call with the policy vocabulary
Spec == InitConfigured /\ [][Next(PolicyUtterances)]_vars

\* a call with the ordering vocabulary
SpecOrder == InitConfigured /\ [][Next(OrderUtterances)]_vars

\* a call with the vocabulary of names and times
SpecFields == InitConfigured /\ [][Next(FieldUtterances)]_vars

\* a call with the vocabulary of portions and numbers
SpecPortions == InitConfigured /\ [][Next(PortionUtterances)]_vars

\* a call with the vocabulary of sauces and spice levels
SpecModifiers == InitConfigured /\ [][Next(ModifierUtterances)]_vars

\* a short call from its first utterance to its shutdown
SpecSession == Init /\ [][NextSession(SessionUtterances)]_vars

(***************************************************************************)
(* main.py: the speech loop                                                *)
(***************************************************************************)

\* the largest max_retries a call is made with, and the number of requests
\* of one call the model follows
MaxRetries == 3
MaxRequests == 5

\* text_to_speech_eleven_labs(text, max_retries): attempt = 0
TextToSpeechCall ==
    \E retries \in 1..MaxRetries :
        /\ tts_pc \in {"idle", "returned"}
        /\ max_retries' = retries
        /\ attempt' = 0
        /\ posted' = <<>>
        /\ tts_pc' = "loop"
        /\ UNCHANGED <<conversation_history, gpt_response, trackerVars, cacheVars>>

\* one turn of `while attempt < max_retries`: requests.post answers 200 (the
\* audio is played and the function returns), answers another status (the
\* status is printed), or raises ConnectionError (attempt += 1 and a sleep)
TextToSpeechRequest ==
    \E response \in Responses :
        /\ tts_pc = "loop"
        /\ attempt < max_retries
        /\ Len(posted) < MaxRequests
        /\ posted' = Append(posted, response)
        /\ attempt' = IF response.raised THEN attempt + 1 ELSE attempt
        /\ tts_pc' = IF ~ response.raised /\ response.status_code = 200
                     THEN "returned" ELSE "loop"
        /\ UNCHANGED <<max_retries, conversation_history, gpt_response,
                       trackerVars, cacheVars>>

\* the while test fails: "Failed to connect ..." and the function returns
TextToSpeechGiveUp ==
    /\ tts_pc = "loop"
    /\ attempt >= max_retries
    /\ tts_pc' = "returned"
    /\ UNCHANGED <<max_retries, attempt, posted, conversation_history, gpt_response,
                   trackerVars, cacheVars>>

NextSpeech ==
    \/ TextToSpeechCall
    \/ TextToSpeechRequest
    \/ TextToSpeechGiveUp

\* the calls of text_to_speech_eleven_labs
SpecSpeech == InitConfigured /\ [][NextSpeech]_vars

\* the number of entries of conversation_history the model follows
MaxHistory == 6

\* what the customer says, and what the completion call answers
Prompts == {"boa tarde", "um frango do churrasco"}
Completions == {"Nome?", "Hora?"}

\* the text generate_gpt_response returns from its except block
FallbackText == "I'm sorry, I couldn't process that."

\* generate_gpt_response(prompt, ...): the prompt is appended, then the
\* completion call answers or raises
generate_gpt_response(prompt, raised, completion) ==
    LET history == Append(conversation_history, [role |-> "user", content |-> prompt])
    IN  IF raised
        THEN /\ conversation_history' = history
             /\ gpt_response' = FallbackText
        ELSE /\ conversation_history' =
                    Append(history, [role |-> "assistant", content |-> completion])
             /\ gpt_response' = completion

GenerateGptResponse ==
    \E prompt \in Prompts, raised \in BOOLEAN, completion \in Completions :
        /\ Len(conversation_history) + 2 <= MaxHistory
        /\ generate_gpt_response(prompt, raised, completion)
        /\ UNCHANGED <<max_retries, attempt, posted, tts_pc, trackerVars, cacheVars>>

\* the turns of the assistant loop of main.py
SpecChat == InitConfigured /\ [][GenerateGptResponse]_vars

(***************************************************************************)
(* ResponseCache                                                           *)
(***************************************************************************)

\* the largest max_size a cache is created with
MaxSize == 2

\* the texts that are cached, and the audio of a text
Texts == {"Molho?", "Picante?", "Nome?", "Hora?"}
Audios == {"audio-a", "audio-b"}

\* ResponseCache._get_key: hashlib.md5(text.encode()).hexdigest()
get_key(text) ==
    CASE text = "Molho?"   -> "4682b16327e249933c8d4071a5c539d7"
      [] text = "Picante?" -> "5d62499acf4b7442bf9d3923cb51d60c"
      [] text = "Nome?"    -> "82263d2dc5011007eb9266a0f79eeb85"
      [] text = "Hora?"    -> "cbc28fbcd0edd087edb656d328c7b4e4"

\* the keys of a cache, and the position of a key in it
Keys(c) == {c[k].key : k \in 1..Len(c)}
IndexOf(c, key) == CHOOSE k \in 1..Len(c) : c[k].key = key

\* ResponseCache.get: self.cache.get(key)
CacheGet(c, text) ==
    IF get_key(text) \in Keys(c) THEN c[IndexOf(c, get_key(text))].audio ELSE None

\* ResponseCache.set without the eviction
CacheSetNoEviction(c, size, text, audio) ==
    IF get_key(text) \in Keys(c)
    THEN [c EXCEPT ![IndexOf(c, get_key(text))].audio = audio]
    ELSE Append(c, [key |-> get_key(text), audio |-> audio])

\* ResponseCache.set: when the cache holds max_size entries or more, the
\* first key in insertion order is popped; then self.cache[key] = audio,
\* which keeps the place of a key that is there and appends a new one
CacheSet(c, size, text, audio) ==
    LET popped == IF Len(c) >= size THEN Tail(c) ELSE c
    IN  IF get_key(text) \in Keys(popped)
        THEN [popped EXCEPT ![IndexOf(popped, get_key(text))].audio = audio]
        ELSE Append(popped, [key |-> get_key(text), audio |-> audio])

\* ResponseCache(max_size): a new, empty cache in place of the default one
ResponseCacheInit ==
    \E size \in 1..MaxSize :
        /\ last_call.op = "none"
        /\ max_size = DefaultMaxSize
        /\ max_size' = size
        /\ cache' = <<>>
        /\ UNCHANGED <<last_call, trackerVars, mainVars>>

ResponseCacheSet ==
    \E text \in Texts, audio \in Audios :
        /\ cache' = CacheSet(cache, max_size, text, audio)
        /\ last_call' = [op |-> "set", text |-> text, audio |-> audio,
                         result |-> None, before |-> cache]
        /\ UNCHANGED <<max_size, trackerVars, mainVars>>

ResponseCacheGet ==
    \E text \in Texts :
        /\ last_call' = [op |-> "get", text |-> text, audio |-> None,
                         result |-> CacheGet(cache, text), before |-> cache]
        /\ UNCHANGED <<cache, max_size, trackerVars, mainVars>>

NextCache ==
    \/ ResponseCacheInit
    \/ ResponseCacheSet
    \/ ResponseCacheGet

\* the calls on a ResponseCache
SpecCache == InitConfigured /\ [][NextCache]_vars

(***************************************************************************)
(* Properties of the extraction                                            *)
(***************************************************************************)

Roles == {TRUE, FALSE}

\* C1: extraction is idempotent.  In every reachable order state, for every
\* message and both speaker roles, running _extract_order_details on the
\* message a second time right after the first leaves items, customer_name
\* and pickup_time as the first run left them.
C1_Idempotent ==
    \A u \in LowerMessages : \A is_user \in Roles :
        LET once == extract_order_details(order_details, u, is_user)
        IN  extract_order_details(once, u, is_user) = once

\* a call in which the second run of process_user_speech came right after the
\* first of add_user_message, on an utterance that names an item, and left
\* the order as it found it
C1_Witness ==
    /\ Len(transcript) = 1
    /\ Len(tasks) = 1
    /\ tasks[1].pc # "created"
    /\ tasks[1].before.items # <<>>
    /\ tasks[1].before.customer_name # None
    /\ tasks[1].after = tasks[1].before

\* C2: first-write-wins.  No step of a call changes customer_name once it is
\* set, nor pickup_time once it is set, whatever message the step handles.
C2_FirstWriteWins ==
    [][/\ order_details.customer_name # None
          => order_details'.customer_name = order_details.customer_name
       /\ order_details.pickup_time # None
          => order_details'.pickup_time = order_details.pickup_time]_vars

\* the first utterance set name and time, and a later message carried another
\* name and another time
C2_Witness ==
    /\ Len(transcript) >= 2
    /\ order_details.customer_name # None
    /\ order_details.pickup_time # None
    /\ Normalized(lower(transcript[1].content)).name = order_details.customer_name
    /\ Normalized(lower(transcript[1].content)).time = order_details.pickup_time
    /\ \E j \in 2..Len(transcript) :
          LET found == Normalized(lower(transcript[j].content))
          IN  /\ found.name # None /\ found.name # order_details.customer_name
              /\ found.time # None /\ found.time # order_details.pickup_time

\* C4: the item list holds at most one entry per item name, in every
\* reachable order state and in the state any further message, of the
\* customer or of the assistant, takes it to.
NoDuplicates(items) ==
    \A i \in 1..Len(items) : \A j \in 1..Len(items) :
        i # j => items[i].item # items[j].item

C4_OneEntryPerName ==
    /\ NoDuplicates(order_details.items)
    /\ \A u \in LowerMessages : \A is_user \in Roles :
          NoDuplicates(extract_order_details(order_details, u, is_user).items)

\* two utterances of the customer named the same item, and the order holds it once
C4_Witness ==
    \E i \in 1..Len(transcript) : \E j \in (i + 1)..Len(transcript) :
        /\ transcript[i].role = "user" /\ transcript[j].role = "user"
        /\ \E a \in 1..Len(Normalized(lower(transcript[i].content)).mentions) :
           \E b \in 1..Len(Normalized(lower(transcript[j].content)).mentions) :
              /\ Normalized(lower(transcript[i].content)).mentions[a].item
                    = Normalized(lower(transcript[j].content)).mentions[b].item
              /\ \E k \in 1..Len(order_details.items) :
                    order_details.items[k].item
                        = Normalized(lower(transcript[i].content)).mentions[a].item

\* the items for which a message states a quantity: a quantity pattern
\* matches, names a key of the item and gives a number
ExplicitQuantity ==
    [u \in LowerMessages |->
        {menu_items[k][2] : k \in {j \in 1..Len(menu_items) :
            /\ Contains(u, menu_items[j][1])
            /\ \/ MatchQuantity(quantity_patterns(u, 1), menu_items[j][1]).ok
               \/ MatchQuantity(quantity_patterns(u, 2), menu_items[j][1]).ok}}]

\* the quantity the item loop is left with for an item a message mentions
MentionedQuantity(u, item_name) ==
    LET mentions == Normalized(u).mentions
        last == Max({k \in 1..Len(mentions) : mentions[k].item = item_name})
    IN  mentions[last].quantity

\* <<u1, u2, item>>: two messages that state a quantity for the same item
QuantityPairs ==
    UNION {UNION {{<<u1, u2, n>> : n \in ExplicitQuantity[u1] \cap ExplicitQuantity[u2]} :
                  u2 \in LowerMessages} :
           u1 \in LowerMessages}

Entries(items, item_name) == {k \in 1..Len(items) : items[k].item = item_name}

AliasInAlias ==
    {<<k1, k2>> \in (1..Len(menu_items)) \X (1..Len(menu_items)) :
        /\ menu_items[k1][1] # menu_items[k2][1]
        /\ menu_items[k1][2] # menu_items[k2][2]
        /\ Contains(menu_items[k2][1], menu_items[k1][1])}

\* the shorter key occurs in u only inside occurrences of the longer key
OnlyInside(u, short, long) ==
    \A i \in 1..Len(u) :
        HasAt(u, i, short)
            => \E j \in 1..i : HasAt(u, j, long) /\ i + Len(short) <= j + Len(long)

\* the items whose key a message holds only as a part of a longer key it holds
Shadowed ==
    [u \in LowerMessages |->
        {menu_items[p[1]][2] : p \in {q \in AliasInAlias :
            /\ Contains(u, menu_items[q[2]][1])
            /\ OnlyInside(u, menu_items[q[1]][1], menu_items[q[2]][1])}}]

\* C6: alias precedence.  After the only utterance of a call, which holds a
\* menu key only as a part of a longer key, the order does not hold the item
\* of the shorter key.
C6_LongerAliasOnly ==
    (/\ Len(transcript) = 1
     /\ transcript[1].role = "user"
     /\ transcript[1].content \in LowerMessages)
        => \A n \in Shadowed[transcript[1].content] :
              Entries(order_details.items, n) = {}

\* the messages a step extracts as the customer's: the utterance it commits
\* or the content of the task it starts
Extracted ==
    {transcript'[k].content : k \in {j \in (Len(transcript) + 1)..Len(transcript') :
                                        transcript'[j].role = "user"}}
        \cup {tasks[t].content : t \in {j \in 1..Len(tasks) :
                                        tasks[j].pc = "created" /\ tasks'[j].pc # "created"}}

\* C7: the quantity of an item that is in the order changes only in a step
\* that handles an utterance stating a quantity for that item.
C7_QuantityKept ==
    [][\A k \in 1..Len(order_details.items) : \A j \in 1..Len(order_details'.items) :
          (/\ order_details.items[k].item = order_details'.items[j].item
           /\ order_details.items[k].quantity # order_details'.items[j].quantity)
             => \E u \in Extracted :
                   order_details.items[k].item \in ExplicitQuantity[u]]_vars

(***************************************************************************)
(* Properties of the policy                                                *)
(***************************************************************************)

\* the tasks that took their branch
Started == {t \in 1..Len(tasks) : tasks[t].pc # "created"}

C8_ClosedIsTerminal ==
    [][deliveries # <<>>
          => /\ order_details' = order_details
             /\ \A t \in 1..Len(tasks) :
                   (tasks[t].pc = "created" /\ tasks'[t].pc # "created")
                      => tasks'[t].action = "Silent"]_vars

\* C9: every task that takes the Confirm branch comes after a task of the
\* same call that took the Summarize branch.
C9_SummarizeBeforeConfirm ==
    \A t \in Started :
        tasks[t].action = "Confirm"
            => \E u \in 1..(t - 1) : tasks[u].action = "Summarize"

\* what C10 says of a task: with a completion keyword, an item in the order
\* and no meat item lacking a modifier, the name question while the name is
\* unset, else the time question while the time is unset
CompletionOrder(task) ==
    LET order == task.after
    IN  (/\ CompletionKeyword(task.content)
         /\ order.items # <<>>
         /\ ~ NeedsModifier(order.items))
           => /\ order.customer_name = None
                 => (task.action = "AskMissingField" /\ task.text = "Nome?")
              /\ (order.customer_name # None /\ order.pickup_time = None)
                 => (task.action = "AskMissingField" /\ task.text = "Hora?")
              /\ (order.customer_name = None \/ order.pickup_time = None)
                 => task.action \notin {"Summarize", "Confirm"}

\* C10 as the claim words it: every utterance with a completion keyword.
C10_CompletionOrderAlways ==
    \A t \in Started : CompletionOrder(tasks[t])

\* C10 (as the code has it): completion-field order, for the utterances with
\* a completion keyword that ask for no menu ("menu", "cardápio", "carta"):
\* the name question first, then the time question, and neither summary nor
\* confirm while a field is unset.
C10_CompletionOrder ==
    \A t \in Started : ~ AsksMenu(tasks[t].content) => CompletionOrder(tasks[t])

\* a confirm keyword with items in the order and neither name nor time:
\* the name question was asked
C10_Witness ==
    \E t \in Started :
        /\ CompletionKeyword(tasks[t].content)
        /\ ~ AsksMenu(tasks[t].content)
        /\ tasks[t].after.items # <<>>
        /\ ~ NeedsModifier(tasks[t].after.items)
        /\ tasks[t].after.customer_name = None
        /\ tasks[t].after.pickup_time = None
        /\ tasks[t].text = "Nome?"

\* the one-utterance order of the end-to-end scenario, as the handler sees it
ScenarioUtterance ==
    lower("quero um frango do churrasco com molho da casa e picante, para as 15h30, em nome de Maria Silva")

\* the call consists of the scenario utterance alone and its processing task
\* has run
ScenarioHandled ==
    /\ Len(transcript) = 1
    /\ transcript[1] = [role |-> "user", content |-> ScenarioUtterance]
    /\ Len(tasks) = 1
    /\ tasks[1].pc # "created"

\* C11: from an empty order, the single utterance "quero um frango do
\* churrasco com molho da casa e picante, para as 15h30, em nome de Maria
\* Silva" leaves exactly one item (Frango do Churrasco, quantity 1, sauce
\* "molho da casa", spice "picante"), pickup_time "15:30" and the customer
\* name Maria Silva (in the letter case the handler keeps or in the
\* customer's).
C11_ScenarioOrder ==
    ScenarioHandled
        => /\ order_details.items =
                <<[item |-> "Frango do Churrasco", quantity |-> 1,
                   personalizacoes |-> [k \in {"molho", "picante"} |->
                        IF k = "molho" THEN "molho da casa" ELSE "picante"]]>>
           /\ order_details.pickup_time = "15:30"
           /\ order_details.customer_name \in {"Maria Silva", "maria silva"}

\* nothing is missing from the order: it has an item, no meat item lacks a
\* modifier, and name and pickup time are set
Complete(order) ==
    /\ order.items # <<>>
    /\ ~ NeedsModifier(order.items)
    /\ order.customer_name # None
    /\ order.pickup_time # None

\* C12 as stated: whenever a customer utterance leaves the order with at
\* least one item, every meat item carrying both modifiers, the name set and
\* the pickup time set, the action of the policy for that utterance is
\* Summarize.
C12_SummarizeWhenComplete ==
    \A t \in Started :
        Complete(tasks[t].after) => tasks[t].action = "Summarize"

\* C12, amended: when a customer utterance leaves the order complete, the
\* action for it is Summarize, with the text of get_order_summary, exactly
\* when the utterance holds "completo" or "terminar" and no menu word and
\* no confirm word; with a confirm word (and no menu word) it is Confirm,
\* with a menu word the menu is spoken, and without any of these words the
\* policy stays Silent.
C12_SummarizeOnFinish ==
    \A t \in Started :
        Complete(tasks[t].after)
            => /\ tasks[t].action =
                    IF AsksMenu(tasks[t].content) THEN "Speak"
                    ELSE IF SaysConfirm(tasks[t].content) THEN "Confirm"
                    ELSE IF SaysFinish(tasks[t].content) THEN "Summarize"
                    ELSE "Silent"
               /\ tasks[t].action = "Summarize"
                    => tasks[t].text = get_order_summary(tasks[t].after)
               /\ tasks[t].action = "Silent" => tasks[t].text = None

\* an utterance without keyword completed the order and got silence, and a
\* later "terminar" got the summary
C12_Witness ==
    \E t, u \in Started :
        /\ t < u
        /\ Complete(tasks[t].after)
        /\ ~ CompletionKeyword(tasks[t].content)
        /\ ~ AsksMenu(tasks[t].content)
        /\ tasks[t].action = "Silent"
        /\ Complete(tasks[u].after)
        /\ SaysFinish(tasks[u].content)
        /\ tasks[u].action = "Summarize"

\* C13: empty-order guard.  A step that handles the utterance "confirmar"
\* while the item list is empty (its extraction at the commit, and its
\* extraction and policy in process_user_speech) leaves the order as it
\* was, says nothing, delivers nothing, and ends the task with the action
\* Silent, so that no delivery can follow from it.
C13_ConfirmOnEmptyOrder ==
    [][(Extracted = {"confirmar"} /\ order_details.items = <<>>)
            => /\ order_details' = order_details
               /\ said' = said
               /\ deliveries' = deliveries
               /\ \A t \in 1..Len(tasks) :
                    (tasks[t].pc = "created" /\ tasks'[t].pc # "created")
                        => /\ tasks'[t].action = "Silent"
                           /\ tasks'[t].text = None
                           /\ tasks'[t].pc = "done"]_vars

\* "confirmar" was the whole call so far: its task ran on the empty order,
\* stayed silent, and the order is still the empty one
C13_Witness ==
    /\ Len(transcript) = 1
    /\ transcript[1] = [role |-> "user", content |-> "confirmar"]
    /\ Len(tasks) = 1
    /\ tasks[1].pc = "done"
    /\ tasks[1].action = "Silent"
    /\ tasks[1].before = EmptyOrder
    /\ order_details = EmptyOrder
    /\ said = <<>>
    /\ deliveries = <<>>

\* C14: role gating.  A step that processes an assistant message
\* (add_assistant_message) adds no item to the order and changes the
\* quantity of no item, whatever the text says.
C14_AssistantAddsNothing ==
    [][(/\ Len(transcript') = Len(transcript) + 1
        /\ transcript'[Len(transcript')].role = "assistant")
            => /\ Len(order_details'.items) = Len(order_details.items)
               /\ \A k \in 1..Len(order_details.items) :
                    /\ order_details'.items[k].item = order_details.items[k].item
                    /\ order_details'.items[k].quantity = order_details.items[k].quantity]_vars

\* "HH:MM" with two digits each side, hour 0..23 and minute 0..59
WellFormedTime(t) ==
    /\ Len(t) = 5
    /\ Char(t, 3) = ":"
    /\ \A i \in {1, 2, 4, 5} : Char(t, i) \in Digits
    /\ StrToInt(SubSeq(t, 1, 2)) \in 0..23
    /\ StrToInt(SubSeq(t, 4, 5)) \in 0..59

\* the candidates the time patterns find in a message, and whether one is
\* out of range
TimeCandidates ==
    [u \in LowerMessages |-> {time_patterns(u, p) : p \in 1..4} \ {NoTime}]
OutOfRange(m) ==
    \/ StrToInt(m.hour) > 23
    \/ m.minute # "" /\ StrToInt(m.minute) > 59

\* the messages all of whose candidates are out of range
OutOfRangeOnly ==
    {u \in LowerMessages : TimeCandidates[u] # {} /\ \A m \in TimeCandidates[u] : OutOfRange(m)}

\* C15: pickup_time is unset or a well-formed "HH:MM" with hour 0..23 and
\* minute 0..59; and extracting a message (of either role) whose time
\* candidates are all out of range leaves pickup_time as it was, so unset
\* if it was unset.
C15_TimeNormalForm ==
    /\ order_details.pickup_time = None \/ WellFormedTime(order_details.pickup_time)
    /\ \A u \in OutOfRangeOnly, is_user \in Roles :
        extract_order_details(order_details, u, is_user).pickup_time = order_details.pickup_time

\* the utterance "as 25h" was handled and pickup_time is still unset
C15_Witness ==
    /\ \E t \in Started : tasks[t].content = "as 25h" /\ tasks[t].after.pickup_time = None
    /\ "as 25h" \in OutOfRangeOnly
    /\ order_details.pickup_time = None

\* the time patterns, in list order, that find an in-range candidate in a
\* message
ValidTimePatterns ==
    [u \in LowerMessages |-> {p \in 1..4 : time_patterns(u, p).ok /\ ~ OutOfRange(time_patterns(u, p))}]

\* the messages with valid candidates from more than one time pattern
SeveralTimes == {u \in LowerMessages : Cardinality(ValidTimePatterns[u]) >= 2}

\* the candidate of the earliest such pattern, as "HH:MM"
FirstValidTime ==
    [u \in SeveralTimes |-> time_str(time_patterns(u, Min(ValidTimePatterns[u])))]

\* C16: first valid time wins inside one utterance.  When the first
\* utterance of a call yields valid candidates from more than one of the
\* ordered time patterns, the pickup_time stored is the candidate of the
\* earliest of those patterns.
C16_FirstValidTimeWins ==
    (/\ Len(transcript) >= 1
     /\ transcript[1].role = "user"
     /\ transcript[1].content \in SeveralTimes)
        => order_details.pickup_time = FirstValidTime[transcript[1].content]

\* at least two whitespace-separated words, and none of the block-list
\* words inside
WellFormedName(name) ==
    /\ WordCount(name) >= 2
    /\ \A w \in 1..Len(common_words) : ~ Contains(name, common_words[w])

\* the name patterns, in list order, whose capture in a message is
\* acceptable
AcceptedNamePatterns ==
    [u \in LowerMessages |-> {p \in 1..4 : /\ name_patterns(u, p) # None
                                            /\ WellFormedName(name_patterns(u, p))}]

\* the messages in which more than one name pattern has an acceptable capture
SeveralNames == {u \in LowerMessages : Cardinality(AcceptedNamePatterns[u]) >= 2}

\* the capture of the first such pattern
FirstAcceptedName ==
    [u \in SeveralNames |-> name_patterns(u, Min(AcceptedNamePatterns[u]))]

\* C17: name pattern precedence.  When the first utterance of a call
\* matches several name patterns with acceptable captures, the
\* customer_name stored is the capture of the first such pattern in the
\* list.
C17_FirstNamePatternWins ==
    (/\ Len(transcript) >= 1
     /\ transcript[1].role = "user"
     /\ transcript[1].content \in SeveralNames)
        => order_details.customer_name = FirstAcceptedName[transcript[1].content]

\* the names the known messages yield are unset or well formed
KnownNamesWellFormed ==
    \A u \in LowerMessages : Normalized(u).name = None \/ WellFormedName(Normalized(u).name)

\* C18: customer_name is unset or a string of at least two
\* whitespace-separated words that holds none of the block-list words
\* (obrigado, bom, boa, dia, tarde, noite, gostaria, desejo, quero).
C18_NameNormalForm ==
    /\ order_details.customer_name = None \/ WellFormedName(order_details.customer_name)
    /\ KnownNamesWellFormed

\* an utterance whose two-word capture holds a block-list word was handled
\* and left the name unset, and a later message set a name
C18_Witness ==
    /\ \E t \in Started :
        /\ name_patterns(tasks[t].content, 4) # None
        /\ ~ WellFormedName(name_patterns(tasks[t].content, 4))
        /\ tasks[t].after.customer_name = None
    /\ order_details.customer_name # None

\* the two kinds of modifier and, per kind, the vocabulary values a message
\* contains
Kinds == {"molho", "picante"}
KindValues(kind) ==
    IF kind = "molho"
    THEN {CARNE_PERSONALIZACOES.molhos[k] : k \in 1..Len(CARNE_PERSONALIZACOES.molhos)}
    ELSE {CARNE_PERSONALIZACOES.picante[k] : k \in 1..Len(CARNE_PERSONALIZACOES.picante)}
ValuesIn ==
    [u \in LowerMessages |-> [kind \in Kinds |-> {v \in KindValues(kind) : Contains(u, v)}]]

\* the known messages that contain a sauce or a spice value
ModifierMessages ==
    UNION {IF ValuesIn[u]["molho"] \cup ValuesIn[u]["picante"] # {} THEN {u} ELSE {} :
           u \in LowerMessages}

\* the items a message names
NamedIn ==
    [u \in LowerMessages |-> {Normalized(u).mentions[k].item : k \in 1..Len(Normalized(u).mentions)}]

\* the claim for the extraction of message u, of either role, from order
\* `before` to order `after`, for one kind of modifier
BroadAttribution(before, after, u, kind) ==
    ValuesIn[u][kind] # {}
        => /\ \A k \in 1..Len(after.items) :
                IsItemCarne(after.items[k])
                    => kind \in DOMAIN after.items[k].personalizacoes
           /\ \A k \in 1..Len(before.items) :
                (/\ IsItemCarne(before.items[k])
                 /\ kind \notin DOMAIN before.items[k].personalizacoes)
                    => /\ after.items[k].item = before.items[k].item
                       /\ after.items[k].personalizacoes[kind] \in ValuesIn[u][kind]
           /\ \A k \in 1..Len(before.items) :
                (/\ IsItemCarne(before.items[k])
                 /\ kind \in DOMAIN before.items[k].personalizacoes
                 /\ before.items[k].item \notin NamedIn[u])
                    => /\ after.items[k].item = before.items[k].item
                       /\ after.items[k].personalizacoes[kind]
                            = before.items[k].personalizacoes[kind]

FirstMention ==
    [u \in LowerMessages |-> [n \in ItemNames |->
        LET at == {i \in 1..Len(u) : \E k \in 1..Len(menu_items) :
                        menu_items[k][2] = n /\ HasAt(u, i, menu_items[k][1])}
        IN  IF at = {} THEN 0 ELSE Min(at)]]

\* the transcript entries that mention an item
MentionedAt(item_name) ==
    {j \in 1..Len(transcript) :
        /\ lower(transcript[j].content) \in LowerMessages
        /\ FirstMention[lower(transcript[j].content)][item_name] > 0}

\* item a was first mentioned no later than item b: in an earlier
\* transcript entry, or in the same entry at an earlier (or the same) place
MentionedBefore(a, b) ==
    LET ja == Min(MentionedAt(a))
        jb == Min(MentionedAt(b))
    IN  \/ ja < jb
        \/ /\ ja = jb
           /\ FirstMention[lower(transcript[ja].content)][a]
                <= FirstMention[lower(transcript[ja].content)][b]

\* C20: item order is insertion order.  The item list is ordered by first
\* mention: of two items, the one first mentioned in an earlier utterance,
\* or at an earlier place of the same utterance, comes first.
C20_MentionOrder ==
    \A i, j \in 1..Len(order_details.items) :
        (/\ i < j
         /\ MentionedAt(order_details.items[i].item) # {}
         /\ MentionedAt(order_details.items[j].item) # {})
            => MentionedBefore(order_details.items[i].item, order_details.items[j].item)

\* C21: in every reachable order every item's quantity is an integer greater
\* than or equal to 1, whatever numbers the utterances contain.
C21_QuantityPositive ==
    \A k \in 1..Len(order_details.items) :
        /\ order_details.items[k].quantity \in Int
        /\ order_details.items[k].quantity >= 1

\* the known messages in which no menu alias (key of menu_items) occurs
NoAliasMessages ==
    UNION {IF \E k \in 1..Len(menu_items) : Contains(u, menu_items[k][1]) THEN {} ELSE {u} :
           u \in LowerMessages}

\* the messages, lower-cased, whose extraction a step runs: the customer's
\* (at the commit and in process_user_speech) and the assistant's
Processed ==
    Extracted \cup
        {lower(transcript'[k].content) :
            k \in {j \in (Len(transcript) + 1)..Len(transcript') :
                        transcript'[j].role = "assistant"}}

\* C22: unresolved mentions are dropped.  A step that processes a message
\* in which no menu alias occurs leaves the item list as it was (no item
\* added, none modified), also when the message reads "uma dose de X" or
\* "meia dose de X" with X not a menu alias.
C22_UnresolvedDropped ==
    [][(Processed # {} /\ Processed \subseteq NoAliasMessages)
            => order_details'.items = order_details.items]_vars

\* the menu items, not half-portion entries themselves, a message asks a
\* half portion of: "meia dose de <alias>" or "1/2 dose de <alias>"
HalfPortionOf ==
    [u \in LowerMessages |->
        {menu_items[k][2] : k \in {j \in 1..Len(menu_items) :
            /\ ~ Contains(menu_items[j][2], "1/2")
            /\ \/ Contains(u, "meia dose de " \o menu_items[j][1])
               \/ Contains(u, "1/2 dose de " \o menu_items[j][1])}}]

\* C23: half-portion rewrite.  When the first utterance of a call asks for a
\* half portion of a menu item that is not a half-portion entry, the order
\* holds the item under its half-portion name ("1/2 ...") and does not hold
\* the full-portion item of the same alias.
C23_HalfPortionOnly ==
    (/\ Len(transcript) = 1
     /\ transcript[1].role = "user")
        => \A n \in HalfPortionOf[transcript[1].content] :
                /\ \E k \in 1..Len(order_details.items) : order_details.items[k].item = "1/2 " \o n
                /\ \A k \in 1..Len(order_details.items) : order_details.items[k].item # n

\* C24: one utterance at a time.  While a process_user_speech task is
\* between its start and its end, no customer utterance is committed (no
\* entry of role "user" enters the transcript, no task is created) and no
\* other task starts.
C24_OneAtATime ==
    [][(\E t \in 1..Len(tasks) : tasks[t].pc = "say")
            => /\ Len(tasks') = Len(tasks)
               /\ \A k \in (Len(transcript) + 1)..Len(transcript') :
                    transcript'[k].role # "user"
               /\ \A u \in 1..Len(tasks) :
                    tasks[u].pc = "created" => tasks'[u].pc = "created"]_vars

C26_AppendOnly ==
    [][/\ Len(transcript') \in {Len(transcript), Len(transcript) + 1}
       /\ \A k \in 1..Len(transcript) : transcript'[k] = transcript[k]]_vars

\* a delivery was made with a transcript of two entries, an assistant
\* message was committed after it, and the entries delivered are still the
\* first entries of the transcript
C26_Witness ==
    /\ deliveries # <<>>
    /\ Len(deliveries[1].transcript) = 2
    /\ Len(transcript) = 3
    /\ transcript[3].role = "assistant"
    /\ SubSeq(transcript, 1, 2) = deliveries[1].transcript

\* what C27 says of one call of send_to_webhook: a request is made exactly
\* when the URL is configured, and the call returns a Boolean (it never
\* raises), True exactly when a request was made and the sink answered with
\* status 200
DeliveryOutcome(d) ==
    /\ d.requested = (MAKE_WEBHOOK_URL \notin {"", PlaceholderUrl})
    /\ d.result \in BOOLEAN
    /\ d.result = (/\ d.requested
                   /\ ~ d.response.raised
                   /\ d.response.status_code = 200)

\* C27: delivery never fails the call.  Every call of send_to_webhook
\* returns True only when the sink answered with status 200 and False in
\* every other case (URL not configured, and then no request is made;
\* another status; an exception of the transport), and the step that makes
\* the call leaves the order and the transcript as they were.
C27_DeliveryNeverFails ==
    [][/\ \A k \in 1..Len(deliveries') : DeliveryOutcome(deliveries'[k])
       /\ Len(deliveries') # Len(deliveries)
            => /\ order_details' = order_details
               /\ transcript' = transcript]_vars

\* one call delivered three times with a configured URL: the sink answered
\* 200 once, another status once, and the transport raised once
C27_Witness ==
    /\ MAKE_WEBHOOK_URL \notin {"", PlaceholderUrl}
    /\ \E i, j, k \in 1..Len(deliveries) :
        /\ deliveries[i].result
        /\ ~ deliveries[j].result /\ ~ deliveries[j].response.raised
        /\ ~ deliveries[k].result /\ deliveries[k].response.raised
    /\ order_details.items # <<>>

\* a call delivered with the URL left at the placeholder of the template: no
\* request was made and the call returned False
C27_Unconfigured ==
    /\ MAKE_WEBHOOK_URL = PlaceholderUrl
    /\ deliveries # <<>>
    /\ ~ deliveries[1].requested
    /\ ~ deliveries[1].result

\* C28: the engine does not track "already sent".  Each confirm task that
\* got past its "Registado.", the send task of the room disconnect and the
\* shutdown callback each make their own call of send_to_webhook, whether
\* or not the call's order was delivered before: the number of deliveries is
\* the number of these triggers, and each delivery carries the order and the
\* transcript as they are at that moment.
C28_EveryTriggerDelivers ==
    [][/\ Len(deliveries') =
            Cardinality({t \in 1..Len(tasks') :
                            tasks'[t].action = "Confirm" /\ tasks'[t].pc = "done"})
            + (IF room' = "disconnected" THEN 1 ELSE 0)
            + (IF shutdown' THEN 1 ELSE 0)
       /\ Len(deliveries') # Len(deliveries)
            => /\ Len(deliveries') = Len(deliveries) + 1
               /\ deliveries'[Len(deliveries')].order = order_details
               /\ deliveries'[Len(deliveries')].transcript = transcript]_vars

\* the same order was delivered four times: on two confirms, on the
\* disconnect and on the shutdown
C28_Witness ==
    /\ Len(deliveries) = 4
    /\ deliveries[1].cause = "confirm"
    /\ deliveries[2].cause = "confirm"
    /\ deliveries[3].cause = "disconnect"
    /\ deliveries[4].cause = "shutdown"
    /\ \A k \in 1..4 : deliveries[k].order = order_details
    /\ order_details.items # <<>>

\* a well-formed order: the three fields, and items that are records of a
\* name, a natural number and a dict of at most the two kinds of modifier
WellFormedOrder(order) ==
    /\ DOMAIN order = {"customer_name", "pickup_time", "items"}
    /\ order.customer_name \in STRING
    /\ order.pickup_time \in STRING
    /\ \A k \in 1..Len(order.items) :
        /\ DOMAIN order.items[k] = {"item", "quantity", "personalizacoes"}
        /\ order.items[k].item \in STRING
        /\ order.items[k].quantity \in Nat
        /\ DOMAIN order.items[k].personalizacoes \subseteq Kinds
        /\ \A kind \in DOMAIN order.items[k].personalizacoes :
            order.items[k].personalizacoes[kind] \in KindValues(kind)

\* the outcomes of the policy step
PolicyOutcomes ==
    {"AskMissingModifier", "Speak", "Silent", "AskMissingField", "Confirm", "Summarize"}

\* int() outside a try block gets a string that is no number: the hour or a
\* non-empty minute group of a time pattern
ExtractionRaises(u) ==
    \E p \in 1..4 :
        /\ time_patterns(u, p).ok
        /\ \/ ~ IsInt(time_patterns(u, p).hour)
           \/ time_patterns(u, p).minute # "" /\ ~ IsInt(time_patterns(u, p).minute)

\* every known message, of either role, after every known customer
\* utterance: the extraction raises nothing and leaves a well-formed order,
\* and the policy step on it ends in one of its outcomes
KnownMessagesHandled ==
    /\ \A u \in LowerMessages : ~ ExtractionRaises(u)
    /\ \A u1 \in LowerMessages, u2 \in LowerMessages, is_user \in Roles :
        LET order == extract_order_details(
                        extract_order_details(EmptyOrder, u1, TRUE), u2, is_user)
        IN  /\ WellFormedOrder(order)
            /\ Policy(order, u2).action \in PolicyOutcomes
            /\ Policy(order, u2).text \in STRING

\* C29: there are no fatal conditions.  For every input text and every
\* reachable order, add_user_message, add_assistant_message and
\* process_user_speech end in a no-op or a partial update of the order:
\* the order is always well formed, every task that ran ended in one of the
\* outcomes of the policy, and no known message makes the extraction raise.
C29_NoFatalCondition ==
    /\ WellFormedOrder(order_details)
    /\ \A t \in Started :
        /\ tasks[t].action \in PolicyOutcomes
        /\ WellFormedOrder(tasks[t].after)
    /\ KnownMessagesHandled

\* a malformed time ("as 25h") was processed as a no-op, and another
\* utterance updated the order in part: the time and an item, but no name
C29_Witness ==
    \E t, u \in Started :
        /\ tasks[t].content = "as 25h"
        /\ tasks[t].after = tasks[t].before
        /\ tasks[u].after.pickup_time # None
        /\ tasks[u].after.items # <<>>
        /\ tasks[u].after.customer_name = None

\* the step commits the assistant's question about a modifier
QuestionCommitted(question) ==
    transcript' = Append(transcript, [role |-> "assistant", content |-> question])

\* C30: a modifier is recorded only from what the customer said.  When the
\* assistant's own question "Molho?" or "Picante?" is committed, the items
\* are the same and every meat item has the sauce and the spice level it
\* had before; after "Picante?" a spice level that was unset is still unset.
C30_QuestionSetsNoModifier ==
    [][\A question \in {"Molho?", "Picante?"} :
        QuestionCommitted(question) =>
            /\ Len(order_details'.items) = Len(order_details.items)
            /\ \A k \in 1..Len(order_details.items) :
                IsItemCarne(order_details.items[k]) =>
                    order_details'.items[k].personalizacoes
                        = order_details.items[k].personalizacoes]_vars

\* C31: modifiers are never lost.  Once a meat item has a sauce (a spice
\* level) recorded, the item has a sauce (a spice level) recorded after
\* every later step of the call.
C31_ModifiersKept ==
    [][\A k \in 1..Len(order_details.items) :
        IsItemCarne(order_details.items[k]) =>
            /\ k <= Len(order_details'.items)
            /\ order_details'.items[k].item = order_details.items[k].item
            /\ DOMAIN order_details.items[k].personalizacoes
                \subseteq DOMAIN order_details'.items[k].personalizacoes]_vars

\* message u names the value v of a kind: it contains v, and whatever other
\* value of the kind it contains is a part of v ("picante" in "muito picante")
NamesValue(u, kind, v) ==
    /\ Contains(u, v)
    /\ \A w \in KindValues(kind) : Contains(u, w) => Contains(v, w)

\* the step commits the customer's utterance u
UtteranceCommitted(u) ==
    transcript' = Append(transcript, [role |-> "user", content |-> u])

\* C32: every value of the modifier vocabulary can be recorded.  A customer
\* utterance that names a meat item together with one sauce (one spice
\* level) of the vocabulary stores exactly that value on the item.
C32_EveryValueRecorded ==
    [][\A u \in {lower(raw) : raw \in ModifierUtterances}, kind \in Kinds :
        \A v \in KindValues(kind) :
            (UtteranceCommitted(u) /\ NamesValue(u, kind, v))
                => \A k \in 1..Len(order_details'.items) :
                     order_details'.items[k].item \in NamedIn[u]
                        => /\ kind \in DOMAIN order_details'.items[k].personalizacoes
                           /\ order_details'.items[k].personalizacoes[kind] = v]_vars

\* the deliveries the confirm branch of process_user_speech made
ConfirmDeliveries ==
    {k \in 1..Len(deliveries) : deliveries[k].cause = "confirm"}

\* C33: an explicit-confirm delivery carries a complete header.  Every order
\* the confirm branch delivers has at least one item, a customer name and a
\* pickup time, whatever speech events ran while the task was suspended.
C33_ConfirmDeliveryComplete ==
    \A k \in ConfirmDeliveries :
        /\ deliveries[k].order.items # <<>>
        /\ deliveries[k].order.customer_name # None
        /\ deliveries[k].order.pickup_time # None

\* the one confirm task delivered an order that another speech event changed
\* while the task was suspended in its await
C33_Witness ==
    /\ Len(deliveries) = 1
    /\ ConfirmDeliveries = {1}
    /\ \E t \in Started :
        /\ tasks[t].action = "Confirm"
        /\ tasks[t].pc = "done"
        /\ deliveries[1].order # tasks[t].after
        /\ Len(deliveries[1].order.items) > Len(tasks[t].after.items)

\* C34: forced slot-filling holds at the moment of delivery.  Every meat item
\* of an order the confirm branch delivers has a sauce and a spice level,
\* also when a customer utterance was committed while the task was suspended
\* in the await of "Registado.".
C34_ConfirmDeliveryModifiers ==
    \A d \in ConfirmDeliveries :
        \A k \in 1..Len(deliveries[d].order.items) :
            IsItemCarne(deliveries[d].order.items[k])
                => DOMAIN deliveries[d].order.items[k].personalizacoes = Kinds

\* the sequence of item names of an order
ItemNamesOf(order) ==
    [k \in 1..Len(order.items) |-> order.items[k].item]

\* C35: items are never removed or reordered.  For every step of the call
\* the sequence of item names before the step is a prefix of the sequence
\* after it.
C35_ItemsAppendOnly ==
    [][/\ Len(order_details.items) <= Len(order_details'.items)
       /\ \A k \in 1..Len(order_details.items) :
            ItemNamesOf(order_details')[k] = ItemNamesOf(order_details)[k]]_vars

\* the order holds two items, and the last utterance named the first of
\* them again after the second had been appended: the entry was updated
\* where it stood
C35_Witness ==
    /\ Len(order_details.items) = 2
    /\ Len(transcript) = 3
    /\ \A k \in 1..3 : transcript[k].role = "user"
    /\ order_details.items[1].item \in NamedIn[lower(transcript[1].content)]
    /\ NamedIn[lower(transcript[2].content)] = {order_details.items[2].item}
    /\ order_details.items[1].item \in NamedIn[lower(transcript[3].content)]

\* C36: the text-to-speech retry loop terminates.  A call of
\* text_to_speech_eleven_labs makes at most max_retries requests, whatever
\* the service does on each of them, and then returns.
C36_AtMostMaxRetries ==
    Len(posted) <= max_retries

\* user and assistant entries alternate, and every prompt has its answer
Alternates(history) ==
    /\ Len(history) % 2 = 0
    /\ \A k \in 1..Len(history) :
        history[k].role = IF k % 2 = 1 THEN "user" ELSE "assistant"

\* C37: state unchanged on error.  When the completion call inside
\* generate_gpt_response raises, the function returns the fallback text and
\* conversation_history is as it was before the call; so the history always
\* alternates user and assistant entries and never holds a prompt without
\* its answer.
C37_HistoryUnchangedOnError ==
    [][/\ gpt_response' = FallbackText => conversation_history' = conversation_history
       /\ Alternates(conversation_history')]_vars

\* C38: ResponseCache is bounded.  For a cache created with max_size >= 1,
\* after any sequence of set and get calls the cache holds at most max_size
\* entries, and right after set(text, audio) get(text) returns that audio.
C38_CacheBounded ==
    /\ Len(cache) <= max_size
    /\ last_call.op = "set" => CacheGet(cache, last_call.text) = last_call.audio

\* a set on a full cache of max_size entries put a new key in and the
\* oldest out
C38_Witness ==
    /\ max_size = MaxSize
    /\ last_call.op = "set"
    /\ Len(last_call.before) = max_size
    /\ Len(cache) = max_size
    /\ get_key(last_call.text) \notin Keys(last_call.before)
    /\ last_call.before[1].key \notin Keys(cache)

\* C39: ResponseCache evicts only the oldest entry and only to make room.  A
\* set removes an entry only when the cache is full and the key is not yet
\* cached, and then the entry inserted earliest; a set of a cached key
\* changes that key's audio and removes no other entry.
C39_EvictOnlyForRoom ==
    last_call.op = "set" =>
        LET before  == last_call.before
            key     == get_key(last_call.text)
            removed == Keys(before) \ Keys(cache)
        IN  /\ removed # {} =>
                /\ Len(before) >= max_size
                /\ key \notin Keys(before)
                /\ removed = {before[1].key}
            /\ key \in Keys(before) =>
                /\ Keys(cache) = Keys(before)
                /\ CacheGet(cache, last_call.text) = last_call.audio
                /\ \A k \in 1..Len(before) :
                    before[k].key # key => before[k] \in {cache[j] : j \in 1..Len(cache)}

====
